---------------------------- MODULE Spec2Model ----------------------------
(***************************************************************************)
(* State-machine model of scrape_mila_publications.py: the robots gate,    *)
(* the retrying fetch, URL discovery (sitemaps, index pages, rel=next      *)
(* pagination), the per-page parse and relevance filter, the two exports   *)
(* and the top-level exception handler.                                    *)
(*                                                                         *)
(* The origin server is the environment: every fetch draws its sequence of *)
(* per-attempt outcomes and the body it serves from finite sets.           *)
(***************************************************************************)
EXTENDS Integers, Sequences, FiniteSets, TLC

---------------------------------------------------------------------------
(* Bounds of the model *)

\* How many rel=next links the origin serves in a run of the bounded
\* specification (Spec); SpecPag lifts the limit.
MaxNext == 2

---------------------------------------------------------------------------
(* Configuration *)

MAX_RETRIES == 3

\* The guard of the pagination loop: `page_guard < 50`.
PageCap == 50

\* Outcome of one GET that ended in requests.RequestException.
EXC == 0

\* fetch() returning None.
NoResponse == -1

None == "None"

\* An element found by rel=next that carries no href.
NoHref == "NoHref"

---------------------------------------------------------------------------
(* URLs.  A URL is named by its text; UrlPath gives urlparse(url).path as  *)
(* a sequence of symbols, one symbol per "/segment", so that               *)
(* path.startswith(d) is the prefix relation on sequences.                 *)

BASE_URL == "https://mila.quebec"

U_ROBOTS == "https://mila.quebec/robots.txt"
U_SM1 == "https://mila.quebec/sitemap.xml"
U_SM2 == "https://mila.quebec/sitemap_index.xml"
U_SUB == "https://mila.quebec/pub-sitemap.xml"
U_EN == "https://mila.quebec/en/publications/"
U_FR == "https://mila.quebec/fr/publications/"
U_P2 == "https://mila.quebec/en/publications/page/2/"
U_ABOUT == "https://mila.quebec/en/about/"
U_OFF == "https://other.org/publications/x/"

\* urljoin(BASE_URL, path) for the two default paths.
PUBLICATION_PATHS == << U_EN, U_FR >>

\* The two sitemap locations tried by get_sitemap_urls.
SITEMAPS == << U_SM1, U_SM2 >>

\* Pages a listing or a sitemap of the origin may point to.
PageUrls == { U_EN, U_FR, U_P2, U_ABOUT, U_OFF }

AllUrls == PageUrls \cup { U_ROBOTS, U_SM1, U_SM2, U_SUB }

\* Every URL of the model in the order Python's sorted() gives strings.
UrlOrder ==
    << U_ABOUT, U_EN, U_P2, U_FR, U_SUB, U_ROBOTS, U_SM1, U_SM2, U_OFF >>

UrlPath(u) ==
    CASE u = U_ROBOTS -> << "robots.txt" >>
      [] u = U_SM1    -> << "sitemap.xml" >>
      [] u = U_SM2    -> << "sitemap_index.xml" >>
      [] u = U_SUB    -> << "pub-sitemap.xml" >>
      [] u = U_EN     -> << "en", "publications" >>
      [] u = U_FR     -> << "fr", "publications" >>
      [] u = U_P2     -> << "en", "publications", "page", "2" >>
      [] u = U_ABOUT  -> << "en", "about" >>
      [] u = U_OFF    -> << "publications", "x" >>

\* u.startswith(BASE_URL)
StartsWithBase(u) == u # U_OFF

\* x.endswith(".xml")
EndsWithXml(u) == u \in { U_SM1, U_SM2, U_SUB }

\* any(k in u for k in ["/publications/", "/publication/", ...]) and the
\* sitemap variant any(p.strip("/") in u for p in ["publications", ...]):
\* on the URLs of the model both hold exactly of the URLs with a
\* "publications" segment.
IsPublicationUrl(u) == \E i \in 1..Len(UrlPath(u)) : UrlPath(u)[i] = "publications"

\* sorted(set(S))
Sorted(S) == SelectSeq(UrlOrder, LAMBDA u : u \in S)

\* str.startswith on symbol sequences
StartsWith(s, d) == Len(d) <= Len(s) /\ SubSeq(s, 1, Len(d)) = d

---------------------------------------------------------------------------
(* HTTP *)

Status == { 200, 304, 401, 403, 404, 429, 500, 503 }

\* What one GET attempt can end in.
Outcome == Status \cup { EXC }

\* requests.Response.ok: raise_for_status() raises only for 400 <= status.
RespOk(s) == s # NoResponse /\ s < 400

\* `not r or not r.ok` as the callers test a fetch result.
Failed(r) == r.resp = NoResponse \/ ~RespOk(r.resp)

RECURSIVE FetchFrom_RetryNotFound(_, _)
FetchFrom_RetryNotFound(outs, i) ==
    IF i >= MAX_RETRIES
    THEN [resp |-> NoResponse, attempts |-> i, slept |-> outs[i] \in {EXC, 429, 503}]
    ELSE LET s == outs[i + 1] IN
         IF s = EXC \/ s \in {429, 503} THEN FetchFrom_RetryNotFound(outs, i + 1)
         ELSE IF RespOk(s) THEN [resp |-> s, attempts |-> i + 1, slept |-> FALSE]
         ELSE IF s \in {401, 403} THEN [resp |-> s, attempts |-> i + 1, slept |-> FALSE]
         ELSE FetchFrom_RetryNotFound(outs, i + 1)

\* The loop of fetch() from iteration i (0-based, as range(MAX_RETRIES)) on
\* the per-attempt outcomes outs.  resp is the status of the response
\* returned or NoResponse; attempts counts the GETs issued; slept tells
\* whether the last thing fetch did was a polite_sleep.
RECURSIVE FetchFrom(_, _)
FetchFrom(outs, i) ==
    IF i >= MAX_RETRIES
    THEN [resp |-> NoResponse, attempts |-> i, slept |-> outs[i] \in {EXC, 429, 503}]
    ELSE LET s == outs[i + 1] IN
         IF s = EXC THEN FetchFrom(outs, i + 1)
         ELSE IF s \in {429, 503} THEN FetchFrom(outs, i + 1)
         ELSE IF RespOk(s) THEN [resp |-> s, attempts |-> i + 1, slept |-> FALSE]
         ELSE IF s \in {401, 403, 404} THEN [resp |-> s, attempts |-> i + 1, slept |-> FALSE]
         ELSE FetchFrom(outs, i + 1)

fetch(outs) == FetchFrom(outs, 0)

\* What the callers of fetch can get back, over all outcome sequences:
\* the response (its status) or None, and whether fetch ended in a sleep.
FetchResults ==
    { [resp |-> fetch(o).resp, slept |-> fetch(o).slept] :
      o \in [1..MAX_RETRIES -> Outcome] }

---------------------------------------------------------------------------
(* robots.txt *)

\* A robots.txt body is a sequence of lines already classified as the
\* parser of load_robots classifies them: blank or comment ("skip"), a
\* User-agent line with its value, a Disallow line with its path, anything
\* else ("other").
UaLine(v) == [kind |-> "ua", val |-> << v >>]
DisLine(p) == [kind |-> "disallow", val |-> p]
SkipLine == [kind |-> "skip", val |-> << >>]
OtherLine == [kind |-> "other", val |-> << >>]

RobotsBodies ==
    { << >>,
      << UaLine("*"), DisLine(<< "en", "publications", "page" >>) >>,
      << SkipLine, UaLine("*"), DisLine(<< >>), DisLine(<< "fr" >>) >>,
      << UaLine("bot"), DisLine(<< "fr" >>), UaLine("*"), OtherLine,
         DisLine(<< "sitemap.xml" >>) >>,
      << UaLine("*"), DisLine(<< "en" >>), UaLine("bot"), DisLine(<< "fr" >>) >> }

\* The for loop of load_robots from line i on.
RECURSIVE ParseRobots(_, _, _, _)
ParseRobots(lines, i, active, disallows) ==
    IF i > Len(lines) THEN disallows
    ELSE LET l == lines[i] IN
         IF l.kind = "skip" THEN ParseRobots(lines, i + 1, active, disallows)
         ELSE IF l.kind = "ua"
              THEN ParseRobots(lines, i + 1, l.val = << "*" >>, disallows)
         ELSE IF active /\ l.kind = "disallow"
              THEN ParseRobots(lines, i + 1, active, Append(disallows, l.val))
         ELSE ParseRobots(lines, i + 1, active, disallows)

load_robots_Unchecked(rules, r, body) == ParseRobots(body, 1, FALSE, << >>)

\* load_robots: the value of ROBOTS_RULES["disallow"] after the call, given
\* its value before, the result of fetching robots.txt and the body served.
load_robots(rules, r, body) ==
    IF Failed(r) THEN rules ELSE ParseRobots(body, 1, FALSE, << >>)

\* robots_blocking_rule returning None (no path symbol is "None").
NoRule == << "None" >>

\* robots_blocking_rule: the first non-empty Disallow the path starts with.
RECURSIVE BlockingFrom(_, _, _)
BlockingFrom(rules, path, i) ==
    IF i > Len(rules) THEN NoRule
    ELSE IF rules[i] # << >> /\ StartsWith(path, rules[i]) THEN rules[i]
    ELSE BlockingFrom(rules, path, i + 1)

robots_blocking_rule(rules, path) == BlockingFrom(rules, path, 1)

\* can_fetch_robots: << allowed, blocking rule or None >>
can_fetch_robots(rules, url) ==
    LET rule == robots_blocking_rule(rules, UrlPath(url))
    IN  << rule = NoRule, rule >>

Allowed(rules, url) == can_fetch_robots(rules, url)[1]

---------------------------------------------------------------------------
(* Text.  A text is a sequence of one-character strings.                   *)

\* str.lower() on the characters the model uses.
Lower(c) ==
    CASE c = "H" -> "h"
      [] c = "P" -> "p"
      [] c = "C" -> "c"
      [] c = "L" -> "l"
      [] c = "M" -> "m"
      [] OTHER   -> c

lower(text) == [i \in 1..Len(text) |-> Lower(text[i])]

\* `kw in t`
Contains(t, kw) ==
    \E o \in 0..(Len(t) - Len(kw)) : SubSeq(t, o + 1, o + Len(kw)) = kw

\* str.strip() (clean_text has already collapsed inner whitespace)
RECURSIVE Strip(_)
Strip(t) ==
    IF t = << >> THEN t
    ELSE IF Head(t) = " " THEN Strip(Tail(t))
    ELSE IF t[Len(t)] = " " THEN Strip(SubSeq(t, 1, Len(t) - 1))
    ELSE t

\* " ".join(parts)
RECURSIVE Join(_)
Join(parts) ==
    IF parts = << >> THEN << >>
    ELSE IF Len(parts) = 1 THEN parts[1]
    ELSE parts[1] \o << " " >> \o Join(Tail(parts))

\* Three of the phrases of KEYWORDS ("hpc", "gnn", "llm"), lower-cased as
\* the list comprehension lower-cases them.
KEYWORDS ==
    << lower(<< "h", "p", "c" >>), lower(<< "g", "n", "n" >>),
       lower(<< "l", "l", "m" >>) >>

\* sum(1 for kw in KEYWORDS if kw in t), from the i-th keyword on
RECURSIVE HitsFrom(_, _)
HitsFrom(t, i) ==
    IF i > Len(KEYWORDS) THEN 0
    ELSE (IF Contains(t, KEYWORDS[i]) THEN 1 ELSE 0) + HitsFrom(t, i + 1)

\* is_relevant without t = text.lower()
is_relevant_CaseSensitive(text) == HitsFrom(text, 1) >= 1

is_relevant(text) ==
    LET t == lower(text)
        hits == HitsFrom(t, 1)
    IN  hits >= 1

---------------------------------------------------------------------------
(* Publication pages *)

\* What the origin can serve for a candidate page, given by the fields the
\* extraction heuristics of parse_publication_page read off it: the first
\* h1/h2, the two meta tags, the abstract, and the date, venue and DOI
\* found in the text.
Body(h1, mt, md, ab, date, venue, doi) ==
    [h1 |-> h1, meta_title |-> mt, meta_desc |-> md, abstract |-> ab,
     date |-> date, venue |-> venue, doi |-> doi]

P_EMPTY == Body(<< >>, << >>, << >>, << >>, "", "", "")
P_HPC == Body(<< "H", "P", "C" >>, << >>, << >>, << >>,
              "2024-03-15", "NeurIPS", "10.1000/x")
P_HPC_GNN == Body(<< "H", "P", "C" >>, << >>, << >>, << "g", "n", "n" >>,
                  "2024-03-15", "NeurIPS", "10.1000/x")
P_LLM == Body(<< >>, << "L", "L", "M" >>, << >>, << >>, "", "", "")
P_SPLIT == Body(<< "h", "p" >>, << "c" >>, << >>, << >>, "2023-01-02", "", "")

PageBodies == { P_EMPTY, P_HPC, P_HPC_GNN, P_LLM, P_SPLIT }

\* data = {c: "" for c in COLUMNS}; data["url"] = url
EmptyData(url) ==
    [url |-> url, title |-> << >>, page_meta_title |-> << >>,
     page_meta_desc |-> << >>, abstract |-> << >>,
     date |-> "", venue |-> "", doi |-> ""]

\* parse_publication_page that goes on to read the body of a failed fetch
parse_publication_page_NoCheck(url, r, body) ==
    [url |-> url,
     title |-> IF body.h1 # << >> THEN body.h1 ELSE body.meta_title,
     page_meta_title |-> body.meta_title, page_meta_desc |-> body.meta_desc,
     abstract |-> body.abstract,
     date |-> body.date, venue |-> body.venue, doi |-> body.doi]

\* parse_publication_page, given the result r of fetch(url) and the body
\* served with it (an error response carries a body too; it is not read).
parse_publication_page(url, r, body) ==
    IF Failed(r) THEN EmptyData(url)
    ELSE [url |-> url,
          title |-> IF body.h1 # << >> THEN body.h1 ELSE body.meta_title,
          page_meta_title |-> body.meta_title,
          page_meta_desc |-> body.meta_desc,
          abstract |-> body.abstract,
          date |-> body.date, venue |-> body.venue, doi |-> body.doi]

\* The text main() hands to is_relevant.
Hay(data) ==
    Join(<< data.title, data.page_meta_title, data.page_meta_desc,
            data.abstract >>)

\* drop_duplicates on the 4-tuple (title, date, venue, doi) instead of url
RECURSIVE drop_duplicates_ByKey4(_)
drop_duplicates_ByKey4(rows) ==
    IF rows = << >> THEN << >>
    ELSE LET init == drop_duplicates_ByKey4(SubSeq(rows, 1, Len(rows) - 1))
             last == rows[Len(rows)]
         IN  IF \E i \in 1..Len(init) :
                    /\ init[i].title = last.title /\ init[i].date = last.date
                    /\ init[i].venue = last.venue /\ init[i].doi = last.doi
             THEN init ELSE Append(init, last)

\* df.drop_duplicates(subset=["url"], ignore_index=True): keep="first"
RECURSIVE drop_duplicates(_)
drop_duplicates(rows) ==
    IF rows = << >> THEN << >>
    ELSE LET init == drop_duplicates(SubSeq(rows, 1, Len(rows) - 1))
             last == rows[Len(rows)]
         IN  IF \E i \in 1..Len(init) : init[i].url = last.url
             THEN init ELSE Append(init, last)

\* The rows of the DataFrame main() writes to the spreadsheet.
ExportFrame(rows) ==
    LET df == drop_duplicates(rows)
    IN  [i \in 1..Len(df) |-> [df[i] EXCEPT !.title = Strip(@)]]

---------------------------------------------------------------------------
(* What the origin serves for sitemaps and listing pages *)

\* The <loc> entries of a sitemap that is a plain URL set ...
UrlSetBodies == { {}, { U_EN, U_P2 }, { U_FR, U_OFF, U_ABOUT } }

\* ... of a sitemap index (some <loc> ends in .xml) ...
IndexBodies == { { U_SUB }, { U_SUB, U_P2 } }

SitemapBodies == UrlSetBodies \cup IndexBodies

\* ... and of a sub-sitemap.
SubBodies == { {}, { U_P2 }, { U_EN, U_FR } }

\* A listing page: the URLs its <a href> elements resolve to and the href
\* of its first rel=next element (None: no such element).
PageContents ==
    [links : { {}, { U_P2 }, { U_FR, U_ABOUT }, { U_P2, U_OFF } },
     next : { None, NoHref, U_P2, U_EN }]

---------------------------------------------------------------------------
(* State *)

VARIABLES
    pc,                 \* where the process is
    ROBOTS_RULES,       \* ROBOTS_RULES["disallow"]
    IGNORED_BY_ROBOTS,  \* the journal: a sequence of [url, matched_rule]
    smIdx,              \* get_sitemap_urls: index of the sitemap tried next
    smUrls,             \* get_sitemap_urls: urls
    candidates,         \* gather_candidate_urls: candidates
    pathIdx,            \* gather_candidate_urls: index into PUBLICATION_PATHS
    next_link,          \* gather_candidate_urls: href of next_link, or None
    page_guard,         \* gather_candidate_urls: page_guard
    urls,               \* main: urls
    urlIdx,             \* main: position of the for loop in urls
    rows,               \* main: rows
    csv,                \* the file OUTPUT_IGNORED
    xlsx,               \* the file OUTPUT_XLSX
    errlog,             \* whether the file OUTPUT_ERRLOG exists
    exitCode,           \* exit status of the process, -1 while it runs
    caught,             \* whether the except clause of __main__ was entered
    nextBudget,         \* environment: rel=next links the origin still serves
    writable,           \* environment: the output files the process can write
    failedPages,        \* history: URLs whose fetch in the page loop failed
    robotsFetch,        \* history: "pending", "ok" or "failed"
    lastFetch,          \* history: the fetch calls of the latest step
    lastNet,            \* history: latest of a page GET ("get") or a sleep
    backToBack,         \* history: a page fetch began right after a page GET
    followups,          \* history: fetches of the current pagination loop
    lastData,           \* history: what the latest main-loop step parsed
    fOuts,              \* SpecFetch: the outcomes the server will give
    fRes                \* SpecFetch: what fetch returned

vars ==
    << pc, ROBOTS_RULES, IGNORED_BY_ROBOTS, smIdx, smUrls, candidates,
       pathIdx, next_link, page_guard, urls, urlIdx, rows, csv, xlsx, errlog,
       exitCode, caught, nextBudget, writable, failedPages, robotsFetch,
       lastFetch, lastNet, backToBack, followups, lastData, fOuts, fRes >>

\* What no action of the pipeline changes.
fetchVars == << fOuts, fRes, writable >>

files == << csv, xlsx, errlog >>

\* nextBudget of an origin that serves n more rel=next links ...
Limited(n) == [limited |-> TRUE, left |-> n]

\* ... and of one whose pagination never ends.
Unlimited == [limited |-> FALSE, left |-> 0]

Absent == [exists |-> FALSE, rows |-> << >>]

Written(rs) == [exists |-> TRUE, rows |-> rs]

NoData == EmptyData(None)

NoResult == [resp |-> NoResponse, attempts |-> 0, slept |-> FALSE]

Call(url, r) == [url |-> url, failed |-> Failed(r)]

\* The journal line appended for a URL a Disallow rule blocks.
Entry(url) ==
    [url |-> url, matched_rule |-> can_fetch_robots(ROBOTS_RULES, url)[2]]

\* The files main() exports.  A target the process cannot write (a
\* read-only directory, a missing spreadsheet engine) fails every write.
Outputs == { "csv", "xlsx" }

\* The state at the start of main(), but for pc and fOuts.
InitState(budget, targets) ==
    /\ ROBOTS_RULES = << >>
    /\ IGNORED_BY_ROBOTS = << >>
    /\ smIdx = 1
    /\ smUrls = {}
    /\ candidates = {}
    /\ pathIdx = 1
    /\ next_link = None
    /\ page_guard = 0
    /\ urls = << >>
    /\ urlIdx = 1
    /\ rows = << >>
    /\ csv = Absent
    /\ xlsx = Absent
    /\ errlog = FALSE
    /\ exitCode = -1
    /\ caught = FALSE
    /\ nextBudget = budget
    /\ writable \in targets
    /\ failedPages = {}
    /\ robotsFetch = "pending"
    /\ lastFetch = {}
    /\ lastNet = "none"
    /\ backToBack = FALSE
    /\ followups = 0
    /\ lastData = NoData
    /\ fRes = NoResult

InitPipeline(budget, targets) ==
    /\ InitState(budget, targets)
    /\ pc = "load_robots"
    /\ fOuts = << >>

Init == InitPipeline(Limited(MaxNext), SUBSET Outputs)

\* The history of page fetches and sleeps after fetching a page with result r.
PageFetched(r) ==
    /\ backToBack' = (backToBack \/ lastNet = "get")
    /\ lastNet' = IF r.slept THEN "sleep" ELSE "get"

\* ... and after the polite_sleep that follows it.
PageFetchedThenSleep ==
    /\ backToBack' = (backToBack \/ lastNet = "get")
    /\ lastNet' = "sleep"

\* The origin serves a rel=next link only while its budget lasts.
MayServe(content) ==
    \/ content.next \in { None, NoHref }
    \/ ~nextBudget.limited
    \/ nextBudget.left > 0

Served(content) ==
    nextBudget' =
        IF content.next \in { None, NoHref } \/ ~nextBudget.limited
        THEN nextBudget ELSE Limited(nextBudget.left - 1)

---------------------------------------------------------------------------
(* main(): load_robots() *)

LoadRobots ==
    /\ pc = "load_robots"
    /\ \E r \in FetchResults, body \in RobotsBodies :
          /\ ROBOTS_RULES' = load_robots(ROBOTS_RULES, r, body)
          /\ robotsFetch' = IF Failed(r) THEN "failed" ELSE "ok"
          /\ lastFetch' = { Call(U_ROBOTS, r) }
    /\ pc' = "sitemaps"
    /\ UNCHANGED << IGNORED_BY_ROBOTS, smIdx, smUrls, candidates, pathIdx,
                    next_link, page_guard, urls, urlIdx, rows, files, exitCode,
                    caught, nextBudget, lastNet, backToBack, followups,
                    lastData, failedPages, fetchVars >>

---------------------------------------------------------------------------
(* get_sitemap_urls(): one iteration of `for sm in [...]`; the last one    *)
(* also filters the URLs and seeds candidates.                             *)

\* The end of one iteration that added the URLs `got` and made `calls`.
SitemapDone(got, calls) ==
    /\ lastFetch' = calls
    /\ IF smIdx < Len(SITEMAPS)
       THEN /\ smIdx' = smIdx + 1
            /\ smUrls' = smUrls \cup got
            /\ UNCHANGED << pc, candidates >>
       ELSE /\ smIdx' = 1
            /\ smUrls' = {}
            /\ candidates' = { u \in smUrls \cup got : IsPublicationUrl(u) }
            /\ pc' = "index"

SitemapStep ==
    /\ pc = "sitemaps"
    /\ LET sm == SITEMAPS[smIdx] IN
       \E r \in FetchResults, xml \in BOOLEAN :
          IF Failed(r) \/ ~xml
          THEN SitemapDone({}, { Call(sm, r) })
          ELSE \E locs \in SitemapBodies :
                  IF \E x \in locs : EndsWithXml(x)
                  THEN \E subres \in [locs -> FetchResults],
                          subbody \in [locs -> SubBodies] :
                          SitemapDone(
                              UNION { subbody[x] :
                                      x \in { y \in locs : ~Failed(subres[y]) } },
                              { Call(sm, r) } \cup
                              { Call(x, subres[x]) : x \in locs })
                  ELSE SitemapDone(locs, { Call(sm, r) })
    /\ UNCHANGED << ROBOTS_RULES, IGNORED_BY_ROBOTS, pathIdx, next_link,
                    page_guard, urls, urlIdx, rows, files, exitCode, caught,
                    nextBudget, robotsFetch, lastNet, backToBack, followups,
                    lastData, failedPages, fetchVars >>

---------------------------------------------------------------------------
(* gather_candidate_urls(): the loop over PUBLICATION_PATHS *)

\* any(k in u for k in ["/publications/", ...]) over the links of a page
PublicationLinks(content) == { u \in content.links : IsPublicationUrl(u) }

\* The loop moves to the next path; after the last one the function
\* returns sorted(candidates) and main() filters and sorts it again.
NextPath(cands) ==
    /\ candidates' = (IF pathIdx < Len(PUBLICATION_PATHS) THEN cands ELSE {})
    /\ next_link' = None
    /\ page_guard' = 0
    /\ IF pathIdx < Len(PUBLICATION_PATHS)
       THEN /\ pathIdx' = pathIdx + 1
            /\ pc' = "index"
            /\ UNCHANGED << urls, urlIdx >>
       ELSE /\ pathIdx' = 1
            /\ pc' = "main_loop"
            /\ urls' = Sorted({ u \in cands : StartsWithBase(u) })
            /\ urlIdx' = 1

\* The pagination loop's condition: `while next_link and page_guard < 50`
WhileCond_OffByOne(nl, pg) == nl # None /\ pg <= PageCap

WhileCond(nl, pg) == nl # None /\ pg < PageCap

\* One path: the robots check, the fetch of the index page and its links.
IndexStep ==
    /\ pc = "index"
    /\ LET index_url == PUBLICATION_PATHS[pathIdx] IN
       IF ~Allowed(ROBOTS_RULES, index_url)
       THEN /\ IGNORED_BY_ROBOTS' = Append(IGNORED_BY_ROBOTS, Entry(index_url))
            /\ lastFetch' = {}
            /\ NextPath(candidates)
            /\ followups' = 0
            /\ UNCHANGED << nextBudget, lastNet, backToBack >>
       ELSE \E r \in FetchResults :
               /\ lastFetch' = { Call(index_url, r) }
               /\ PageFetched(r)
               /\ UNCHANGED IGNORED_BY_ROBOTS
               /\ IF Failed(r)
                  THEN /\ NextPath(candidates)
                       /\ followups' = 0
                       /\ UNCHANGED nextBudget
                  ELSE \E content \in PageContents :
                          /\ MayServe(content)
                          /\ Served(content)
                          /\ candidates' = candidates \cup PublicationLinks(content)
                          /\ next_link' = content.next
                          /\ page_guard' = 0
                          /\ followups' = 0
                          /\ pc' = "paginate"
                          /\ UNCHANGED << pathIdx, urls, urlIdx >>
    /\ UNCHANGED << ROBOTS_RULES, smIdx, smUrls, rows, files, exitCode, caught,
                    robotsFetch, lastData, failedPages, fetchVars >>

\* One evaluation of the while condition and, if it holds, one iteration.
PaginateStep ==
    /\ pc = "paginate"
    /\ IF ~WhileCond(next_link, page_guard) \/ next_link = NoHref
       THEN /\ NextPath(candidates)
            /\ lastFetch' = {}
            /\ UNCHANGED << IGNORED_BY_ROBOTS, nextBudget, lastNet, backToBack,
                            followups >>
       ELSE LET next_url == next_link IN
            IF ~Allowed(ROBOTS_RULES, next_url)
            THEN /\ IGNORED_BY_ROBOTS' = Append(IGNORED_BY_ROBOTS, Entry(next_url))
                 /\ lastFetch' = {}
                 /\ NextPath(candidates)
                 /\ UNCHANGED << nextBudget, lastNet, backToBack, followups >>
            ELSE \E rr \in FetchResults :
                    /\ lastFetch' = { Call(next_url, rr) }
                    /\ UNCHANGED IGNORED_BY_ROBOTS
                    /\ followups' = followups + 1
                    /\ IF Failed(rr)
                       THEN /\ PageFetched(rr)
                            /\ NextPath(candidates)
                            /\ UNCHANGED nextBudget
                       ELSE \E content \in PageContents :
                               /\ MayServe(content)
                               /\ Served(content)
                               /\ PageFetchedThenSleep
                               /\ candidates' =
                                     candidates \cup PublicationLinks(content)
                               /\ next_link' = content.next
                               /\ page_guard' = page_guard + 1
                               /\ UNCHANGED << pc, pathIdx, urls, urlIdx >>
    /\ UNCHANGED << ROBOTS_RULES, smIdx, smUrls, rows, files, exitCode, caught,
                    robotsFetch, lastData, failedPages, fetchVars >>

---------------------------------------------------------------------------
(* main(): the loop over urls and the two exports *)

\* One iteration of `for url in urls`.
MainStep ==
    /\ pc = "main_loop"
    /\ urlIdx <= Len(urls)
    /\ LET url == urls[urlIdx] IN
       IF ~Allowed(ROBOTS_RULES, url)
       THEN /\ IGNORED_BY_ROBOTS' = Append(IGNORED_BY_ROBOTS, Entry(url))
            /\ lastFetch' = {}
            /\ lastData' = NoData
            /\ UNCHANGED << rows, lastNet, backToBack, failedPages >>
       ELSE \E r \in FetchResults, body \in PageBodies :
               LET data == parse_publication_page(url, r, body)
                   hay == Hay(data)
               IN  /\ lastFetch' = { Call(url, r) }
                   /\ lastData' = data
                   /\ failedPages' =
                         IF Failed(r) THEN failedPages \cup { url } ELSE failedPages
                   /\ rows' = IF is_relevant(hay) THEN Append(rows, data) ELSE rows
                   /\ PageFetchedThenSleep
                   /\ UNCHANGED IGNORED_BY_ROBOTS
    /\ urlIdx' = urlIdx + 1
    /\ followups' = 0
    /\ UNCHANGED << pc, ROBOTS_RULES, smIdx, smUrls, candidates, pathIdx,
                    next_link, page_guard, urls, files, exitCode, caught,
                    nextBudget, robotsFetch, fetchVars >>

\* An exception leaves main(): its locals are gone, the globals remain.
Unwind ==
    /\ pc' = "handler"
    /\ caught' = TRUE
    /\ smIdx' = 1
    /\ smUrls' = {}
    /\ candidates' = {}
    /\ pathIdx' = 1
    /\ next_link' = None
    /\ page_guard' = 0
    /\ urls' = << >>
    /\ urlIdx' = 1
    /\ rows' = << >>
    /\ followups' = 0
    /\ lastFetch' = {}
    /\ lastData' = NoData
    /\ failedPages' = {}

\* The journal export after the loop.
ExportCsv ==
    /\ pc = "main_loop"
    /\ urlIdx > Len(urls)
    /\ IF "csv" \in writable
       THEN /\ csv' = Written(IGNORED_BY_ROBOTS)
            /\ pc' = "export_xlsx"
            /\ followups' = 0
            /\ lastFetch' = {}
            /\ UNCHANGED << smIdx, smUrls, candidates, pathIdx, next_link,
                            page_guard, urls, urlIdx, rows, caught, lastData,
                            failedPages >>
       ELSE /\ Unwind
            /\ UNCHANGED csv
    /\ UNCHANGED << ROBOTS_RULES, IGNORED_BY_ROBOTS, xlsx, errlog, exitCode,
                    nextBudget, robotsFetch, lastNet, backToBack, fetchVars >>

\* The spreadsheet export and sys.exit(0).
ExportXlsx ==
    /\ pc = "export_xlsx"
    /\ IF "xlsx" \in writable
       THEN /\ xlsx' = Written(IF rows = << >> THEN << >> ELSE ExportFrame(rows))
            /\ pc' = "exit"
            /\ exitCode' = 0
            /\ UNCHANGED << smIdx, smUrls, candidates, pathIdx, next_link,
                            page_guard, urls, urlIdx, rows, caught, lastData,
                            failedPages, followups, lastFetch >>
       ELSE /\ Unwind
            /\ UNCHANGED << xlsx, exitCode >>
    /\ UNCHANGED << ROBOTS_RULES, IGNORED_BY_ROBOTS, csv, errlog, nextBudget,
                    robotsFetch, lastNet, backToBack, fetchVars >>

---------------------------------------------------------------------------
(* __main__: the except clause *)

\* An exception other than requests.RequestException leaves main() from
\* discovery or from the page loop (fetch catches RequestException only;
\* the parsers are not guarded).
Raise ==
    /\ pc \in { "sitemaps", "index", "paginate", "main_loop" }
    /\ Unwind
    /\ UNCHANGED << ROBOTS_RULES, IGNORED_BY_ROBOTS, files, exitCode,
                    nextBudget, robotsFetch, lastNet, backToBack, fetchVars >>

\* _write_empty_outputs: the journal with what IGNORED_BY_ROBOTS holds
\* (header only when it is empty), then the spreadsheet with no rows.  A
\* write that raises ends it.
write_empty_outputs ==
    /\ csv' = IF "csv" \in writable THEN Written(IGNORED_BY_ROBOTS) ELSE csv
    /\ xlsx' = IF Outputs \subseteq writable THEN Written(<< >>) ELSE xlsx

\* The except clause: write the error log, write the empty outputs, exit 0.
\* An exception raised inside it is caught by nothing: the interpreter
\* prints the traceback and exits with status 1.
Handler ==
    /\ pc = "handler"
    /\ pc' = "exit"
    /\ errlog' = TRUE
    /\ write_empty_outputs
    /\ exitCode' = IF Outputs \subseteq writable THEN 0 ELSE 1
    /\ UNCHANGED << ROBOTS_RULES, IGNORED_BY_ROBOTS, smIdx, smUrls, candidates,
                    pathIdx, next_link, page_guard, urls, urlIdx, rows, caught,
                    nextBudget, robotsFetch, lastFetch, lastNet, backToBack,
                    followups, lastData, failedPages, fetchVars >>

---------------------------------------------------------------------------
(* Specifications *)

NextNoFault ==
    \/ LoadRobots
    \/ SitemapStep
    \/ IndexStep
    \/ PaginateStep
    \/ MainStep
    \/ ExportCsv
    \/ ExportXlsx

Next ==
    \/ NextNoFault
    \/ Raise
    \/ Handler

\* The pipeline against an origin that serves at most MaxNext rel=next links.
Spec == Init /\ [][Next]_vars

\* The pipeline against an origin whose rel=next chain never ends or cycles.
InitPag == InitPipeline(Unlimited, { Outputs })

SpecPag == InitPag /\ [][Next]_vars

\* The pipeline when every output is writable and nothing but HTTP fails.
\* The process is one sequential thread: it keeps taking steps until exit.
InitNoFault == InitPipeline(Limited(MaxNext), { Outputs })

SpecNoFault == InitNoFault /\ [][NextNoFault]_vars /\ WF_vars(NextNoFault)

---------------------------------------------------------------------------
(* fetch() on its own: the server's outcomes are drawn at the start.       *)

InitFetch ==
    /\ InitState(Limited(MaxNext), { Outputs })
    /\ pc = "fetch"
    /\ fOuts \in [1..MAX_RETRIES -> Outcome]

\* The call fetch(url) against a server that answers with fOuts.
FetchCall ==
    /\ pc = "fetch"
    /\ fRes' = fetch(fOuts)
    /\ pc' = "fetched"
    /\ UNCHANGED << ROBOTS_RULES, IGNORED_BY_ROBOTS, smIdx, smUrls, candidates,
                    pathIdx, next_link, page_guard, urls, urlIdx, rows, files,
                    exitCode, caught, nextBudget, writable, failedPages,
                    robotsFetch, lastFetch, lastNet, backToBack, followups,
                    lastData, fOuts >>

NextFetch == FetchCall

SpecFetch == InitFetch /\ [][NextFetch]_vars

---------------------------------------------------------------------------
(* Properties *)

\* The run ended normally: main() returned and sys.exit(0) was reached.
Finished == pc = "exit" /\ ~caught

JournalUrls == { IGNORED_BY_ROBOTS[i].url : i \in 1..Len(IGNORED_BY_ROBOTS) }

RowUrls(rs) == { rs[i].url : i \in 1..Len(rs) }

Key4(row) == << row.title, row.date, row.venue, row.doi >>

\* The number of distinct keyword phrases that occur in the text when
\* letter case is ignored on both sides.
Score(text) ==
    Cardinality(
        { KEYWORDS[k] : k \in
            { j \in 1..Len(KEYWORDS) :
                \E o \in 0..(Len(text) - Len(KEYWORDS[j])) :
                    \A c \in 1..Len(KEYWORDS[j]) :
                        Lower(text[o + c]) = Lower(KEYWORDS[j][c]) } })

\* C1: whenever the except clause of __main__ was entered, the process
\* ends with exit status 0, the error log is written and both the journal
\* CSV and the spreadsheet exist, the spreadsheet holding no row.
C1_FailSoft ==
    (pc = "exit" /\ caught) =>
        /\ exitCode = 0
        /\ errlog
        /\ csv.exists
        /\ xlsx.exists /\ xlsx.rows = << >>

\* A status after which the claim says fetch returns at once.
Definitive2xx(s) == s \in 200..299 \/ s \in { 401, 403, 404 }

\* A status after which fetch does return at once: resp.ok is true of every
\* status below 400, not only of 2xx.
DefinitiveOk(s) == s \in Status /\ (s < 400 \/ s \in { 401, 403, 404 })

\* C2 as stated: at most MAX_RETRIES attempts; the response of the first
\* attempt with status 2xx, 401, 403 or 404 is returned with no attempt
\* after it; None is returned exactly when no attempt had such a status.
C2_FetchAsStated ==
    pc = "fetched" =>
        /\ fRes.attempts <= MAX_RETRIES
        /\ \A k \in 1..MAX_RETRIES :
              (/\ Definitive2xx(fOuts[k])
               /\ \A j \in 1..(k - 1) : ~Definitive2xx(fOuts[j]))
              => fRes.resp = fOuts[k] /\ fRes.attempts = k
        /\ (fRes.resp = NoResponse) <=>
              (fRes.attempts = MAX_RETRIES
               /\ \A k \in 1..MAX_RETRIES : ~Definitive2xx(fOuts[k]))

\* C2 amended: the same with "status below 400, or 401, 403, 404" for the
\* statuses that end the retries.
C2_FetchBelow400 ==
    pc = "fetched" =>
        /\ fRes.attempts <= MAX_RETRIES
        /\ \A k \in 1..MAX_RETRIES :
              (/\ DefinitiveOk(fOuts[k])
               /\ \A j \in 1..(k - 1) : ~DefinitiveOk(fOuts[j]))
              => fRes.resp = fOuts[k] /\ fRes.attempts = k
        /\ (fRes.resp = NoResponse) <=>
              (fRes.attempts = MAX_RETRIES
               /\ \A k \in 1..MAX_RETRIES : ~DefinitiveOk(fOuts[k]))

\* fetch went through a 503 and an exception and returned the 404 of its
\* third attempt.
C2_Witness ==
    /\ pc = "fetched"
    /\ fOuts = << 503, EXC, 404 >>
    /\ fRes.resp = 404
    /\ fRes.attempts = 3

\* C3: every URL handed to fetch in a step, other than robots.txt, is one
\* the loaded rules allow.
C3_FetchesGated ==
    \A c \in lastFetch :
        c.url = U_ROBOTS \/ Allowed(ROBOTS_RULES, c.url)

\* C4: when the fetch of robots.txt gave None or a response that is not
\* OK, the rules are empty in every later state, can_fetch_robots answers
\* (true, None) for every URL, and the journal has no entry.
C4_FailOpen ==
    robotsFetch = "failed" =>
        /\ ROBOTS_RULES = << >>
        /\ \A u \in AllUrls : can_fetch_robots(ROBOTS_RULES, u) = << TRUE, NoRule >>
        /\ IGNORED_BY_ROBOTS = << >>
        /\ (csv.exists => csv.rows = << >>)

\* A run whose robots fetch failed analysed pages and exported them.
C4_Witness ==
    /\ Finished
    /\ robotsFetch = "failed"
    /\ Len(urls) >= 2
    /\ Len(xlsx.rows) >= 1

\* C5: the journal never holds two entries with the same URL, every entry
\* is for a URL the rules disallow, no URL fetched in a step has an entry,
\* and the journal written at the end is the journal collected.
C5_OneEntryPerUrl ==
    /\ \A i, j \in 1..Len(IGNORED_BY_ROBOTS) :
          i # j => IGNORED_BY_ROBOTS[i].url # IGNORED_BY_ROBOTS[j].url
    /\ \A u \in JournalUrls : ~Allowed(ROBOTS_RULES, u)
    /\ \A c \in lastFetch : c.url \notin JournalUrls
    /\ Finished => csv.rows = IGNORED_BY_ROBOTS

\* C6: the pagination loop of a listing root makes at most PageCap fetches
\* after the root's first page, and it terminates: in the loop a step is
\* always possible, and a step that stays in the loop raises page_guard by
\* one without passing PageCap.
C6_PaginationBound ==
    [][ /\ followups' <= PageCap
        /\ pc = "paginate" => ENABLED PaginateStep
        /\ (pc = "paginate" /\ pc' = "paginate") =>
              /\ page_guard' = page_guard + 1
              /\ page_guard' <= PageCap ]_vars

\* The cap is what ends a loop: fifty pages were followed and the last of
\* them still links to a next page.
C6_Witness ==
    /\ pc = "paginate"
    /\ page_guard = PageCap
    /\ followups = PageCap
    /\ next_link \in { U_P2, U_EN }

Sheet == xlsx.rows

FetchFailed == \E c \in lastFetch : c.failed

\* Both exports were written by main() and the process exited with 0.
Exported ==
    /\ Finished
    /\ exitCode = 0
    /\ csv.exists
    /\ xlsx.exists
    /\ xlsx.rows = (IF rows = << >> THEN << >> ELSE ExportFrame(rows))

C10_SleepBetweenFetches == ~backToBack

====
